---- MODULE Spec2Model ----
(***************************************************************************)
(* Model of src/app.py: the Flask chat application with its FAISS-backed   *)
(* document store.  The state is the module's globals (index, documents,  *)
(* chat_messages), the two persisted files (VECTOR_PATH, DOC_PATH) and the *)
(* position of every request that is being served.  Texts are sequences of *)
(* one-character strings; vectors are sequences of integers in tenths, so  *)
(* squared L2 distances are integers in hundredths (1.2 is 120).           *)
(***************************************************************************)
EXTENDS Integers, Sequences, FiniteSets, TLC

\* ------------------------------------------------------------------ bounds
NThreads == 2     \* request slots of the threaded development server
MaxDocs == 2      \* uploads are accepted while fewer than MaxDocs vectors/documents are stored
MaxChat == 1      \* length cap of the chat log

Threads == 1..NThreads

\* ------------------------------------------------------------------ texts
None == <<"<None>">>          \* Python's None where a text is expected (request field absent)
IsNone(s) == s = None

DocA == <<"P", "l", "a", "n", "A">>
DocB == <<"P", "l", "a", "n", "B">>
Empty == <<>>

\* request.form.get("content") of the modelled upload requests
Contents == {None, Empty, DocA, DocB}

MsgBlank == <<" ", " ">>
MsgHey == <<" ", "H", "e", "Y", " ">>
MsgHi == <<"h", "i">>
MsgOk == <<"o", "k", "?">>
MsgCost == <<" ", "c", "o", "s", "t", " ">>
MsgPlanA == <<"P", "L", "A", "N", "A">>
MsgPlanB == <<"p", "l", "a", "n", "b", "?">>
MsgPrice == <<"p", "r", "i", "c", "e", "s">>
MsgRefund == <<"r", "e", "f", "u", "n", "d">>

\* request.json.get("message") of the modelled analyze requests
Messages ==
  {None, Empty, MsgBlank, MsgHey, MsgHi, MsgOk, MsgCost, MsgPlanA, MsgPlanB, MsgPrice, MsgRefund}

\* str.lower(), one character
LowerChar(c) ==
  CASE c = "A" -> "a" [] c = "B" -> "b" [] c = "E" -> "e" [] c = "H" -> "h"
    [] c = "L" -> "l" [] c = "N" -> "n" [] c = "P" -> "p" [] c = "Y" -> "y"
    [] OTHER -> c

\* str.lower()
Lower(s) == [i \in 1..Len(s) |-> LowerChar(s[i])]

IsSpace(c) == c \in {" ", "\t", "\n"}

RECURSIVE LStrip(_)
LStrip(s) == IF s # <<>> /\ IsSpace(Head(s)) THEN LStrip(Tail(s)) ELSE s

RECURSIVE RStrip(_)
RStrip(s) ==
  IF s # <<>> /\ IsSpace(s[Len(s)]) THEN RStrip(SubSeq(s, 1, Len(s) - 1)) ELSE s

\* str.strip()
Strip(s) == RStrip(LStrip(s))

\* Normalize as it would be without .lower()
Normalize_NoLower(m) == Strip(m)

\* request.json.get("message").lower().strip()
Normalize(m) == Strip(Lower(m))

greetings ==
  { <<"h", "i">>,
    <<"h", "e", "l", "l", "o">>,
    <<"h", "e", "y">>,
    <<"g", "o", "o", "d", " ", "m", "o", "r", "n", "i", "n", "g">>,
    <<"g", "o", "o", "d", " ", "e", "v", "e", "n", "i", "n", "g">> }

\* ------------------------------------------------------------------ embedding and search
\* client.embeddings.create(model="text-embedding-3-small", input=text).data[0].embedding:
\* a fixed function of the text, every vector of the same dimension (components in tenths)
Embed(s) ==
  CASE s = DocA -> <<0, 0, 0>>
    [] s = DocB -> <<30, 0, 0>>
    [] s = Lower(MsgPlanA) -> <<0, 0, 0>>
    [] s = MsgPlanB -> <<30, 2, 2>>
    [] s = MsgPrice -> <<10, 4, 2>>
    [] s = MsgRefund -> <<11, 0, 0>>
    [] OTHER -> <<50, 50, 50>>

RECURSIVE SumSq(_, _, _)
SumSq(x, y, i) ==
  IF i > Len(x) THEN 0 ELSE (x[i] - y[i]) * (x[i] - y[i]) + SumSq(x, y, i + 1)

\* squared L2 distance of IndexFlatL2, in hundredths
L2(x, y) == SumSq(x, y, 1)

Inf == 1000000     \* the distance FAISS reports when no vector is found (FLT_MAX)

RECURSIVE Nearest(_, _, _, _)
\* best: the (D, I) found among xb[1..i-1]; a later vector wins only when strictly nearer
Nearest(xb, q, i, best) ==
  IF i > Len(xb) THEN best
  ELSE Nearest(xb, q, i + 1,
               IF L2(xb[i], q) < best.D THEN [D |-> L2(xb[i], q), I |-> i - 1] ELSE best)

\* index.search(q_vec, k=1): D[0][0] and I[0][0] (0-based; -1 when the index holds no vector)
Search(ix, q) == Nearest(ix.xb, q, 1, [D |-> Inf, I |-> -1])

\* the similarity threshold 1.2, in hundredths
Threshold == 120

\* int(100 / (1 + D[0][0])) with D in hundredths: int() truncates toward zero
\* the conversion estimate as it would be with a linear fall-off, 100 - 100 d
Conversion_Linear(d) == 100 - d

Conversion(d) == (100 * 100) \div (100 + d)

\* ------------------------------------------------------------------ persisted artifacts
\* A file is [exists, data]; data is the sequence of items written to it.
NoFile == [exists |-> FALSE, data |-> <<>>]

\* a single write at offset 0 through a freshly opened descriptor: it overwrites the
\* first Len(s) items and leaves what another writer put beyond them
WriteAt0(f, s) == s \o SubSeq(f, Len(s) + 1, Len(f))

RECURSIVE Flatten(_)
Flatten(xb) == IF xb = <<>> THEN <<>> ELSE Head(xb) \o Flatten(Tail(xb))

\* faiss.write_index: the header (d, ntotal) followed by the ntotal * d components
WriteIndexData(ix) == <<ix.d, Len(ix.xb)>> \o Flatten(ix.xb)

NoIndex == [d |-> 0, xb |-> <<>>]

\* faiss.read_index: fails (raises) on a file shorter than its header announces
ReadIndex(data) ==
  IF Len(data) < 2 THEN [ok |-> FALSE, val |-> NoIndex]
  ELSE LET d == data[1]
           n == data[2]
       IN IF Len(data) < 2 + n * d THEN [ok |-> FALSE, val |-> NoIndex]
          ELSE [ok |-> TRUE,
                val |-> [d |-> d,
                         xb |-> [i \in 1..n |-> SubSeq(data, 3 + (i - 1) * d, 2 + i * d)]]]

LBR == <<"[">>
RBR == <<"]">>
COMMA == <<",">>
Quote(s) == <<"\"">> \o s \o <<"\"">>
IsQuoted(tok) == Len(tok) >= 2 /\ tok[1] = "\"" /\ tok[Len(tok)] = "\""
Unquote(tok) == SubSeq(tok, 2, Len(tok) - 1)

RECURSIVE JsonItems(_)
JsonItems(docs) ==
  IF docs = <<>> THEN <<>>
  ELSE IF Len(docs) = 1 THEN <<Quote(docs[1])>>
  ELSE <<Quote(docs[1]), COMMA>> \o JsonItems(Tail(docs))

\* json.dump(documents, f): the tokens of a JSON array of strings
JsonDump(docs) == <<LBR>> \o JsonItems(docs) \o <<RBR>>

JsonFail == [ok |-> FALSE, val |-> <<>>]

RECURSIVE JsonParseItems(_, _, _)
\* a string is expected at position i; acc holds the strings read so far
JsonParseItems(data, i, acc) ==
  IF i + 1 > Len(data) \/ ~IsQuoted(data[i]) THEN JsonFail
  ELSE LET acc2 == Append(acc, Unquote(data[i]))
       IN IF data[i + 1] = RBR
          THEN (IF i + 1 = Len(data) THEN [ok |-> TRUE, val |-> acc2] ELSE JsonFail)
          ELSE IF data[i + 1] = COMMA THEN JsonParseItems(data, i + 2, acc2)
          ELSE JsonFail

\* json.load(f): raises on an empty or truncated file and on data after the array
JsonLoad(data) ==
  IF Len(data) < 2 \/ data[1] # LBR THEN JsonFail
  ELSE IF data[2] = RBR THEN (IF Len(data) = 2 THEN [ok |-> TRUE, val |-> <<>>] ELSE JsonFail)
  ELSE JsonParseItems(data, 2, <<>>)

\* the proper prefixes a failed write can leave behind
ProperPrefixes(s) == {SubSeq(s, 1, k) : k \in 0..(Len(s) - 1)}

\* ------------------------------------------------------------------ responses
NoReply == <<>>

\* every response as one record: status, kind, and the five suggestion fields
\* (filled only when the body is a suggestion)
Response(status, kind, reply, interest, conv, objection, action) ==
  [status |-> status, kind |-> kind, suggested_reply |-> reply, interest_level |-> interest,
   conversion_percentage |-> conv, objection |-> objection, next_action |-> action]

Plain(status, kind) == Response(status, kind, NoReply, "", -1, "", "")

NoResponse == Plain(0, "none")
StoredOk == Plain(200, "stored")                      \* "Document stored successfully"
NoContent == Plain(400, "no_content")                 \* "No content provided", 400
ServerError(kind) == Plain(500, kind)                 \* an uncaught exception: Flask answers 500

GreetingReply ==
  Response(200, "suggestion", <<"Hello! How can I help you today?">>, "Low", 10, "None",
           "Ask needs")
\* (the reply's apostrophe is a typographic one in the source)
ShortReply ==
  Response(200, "suggestion",
           <<"Could you please tell me more about what you're looking for?">>, "Low", 15,
           "Unclear intent", "Probe further")
NoDataReply ==
  Response(200, "suggestion", <<"Our team will get back to you shortly.">>, "Low", 0,
           "No data", "Upload documents")
LowRelevanceReply ==
  Response(200, "suggestion", <<"Could you clarify your question?">>, "Medium", 30,
           "Low relevance", "Clarify")
MatchReply(answer, d) ==
  Response(200, "suggestion", answer, "High", Conversion(d), "None", "Proceed")

IsSuggestion(r) == r.kind = "suggestion"

\* ------------------------------------------------------------------ state
VARIABLES
  proc,           \* "down" before the module is imported (and after a crash), "up" while serving
  index,          \* the global `index`: NoneRef or a reference into heap
  heap,           \* the FAISS index objects: reference -> [d, xb]
  documents,      \* the global `documents`
  chat_messages,  \* the global `chat_messages`
  vecFile,        \* the file at VECTOR_PATH
  docFile,        \* the file at DOC_PATH
  th,             \* per request slot: position in the handler, locals, response
  event,          \* the kind of the last step taken
  snap            \* index and documents as they were when the process last went down (history)

vars == <<proc, index, heap, documents, chat_messages, vecFile, docFile, th, event, snap>>

NoneRef == -1     \* `index = None`
LoadedRef == 0    \* the object faiss.read_index returns at startup
Refs == 0..NThreads

EmptyHeap == [r \in Refs |-> NoIndex]

\* the store as a value: what `index` holds (none when it is None), the documents, the files
Snapshot ==
  [none |-> index = NoneRef,
   ix |-> IF index = NoneRef THEN NoIndex ELSE heap[index],
   documents |-> documents,
   vecFile |-> vecFile,
   docFile |-> docFile,
   chat |-> chat_messages]

EmptySnapshot ==
  [none |-> TRUE, ix |-> NoIndex, documents |-> <<>>, vecFile |-> NoFile, docFile |-> NoFile,
   chat |-> <<>>]

\* the in-memory part of a store value
Memory(s) == [none |-> s.none, ix |-> s.ix, documents |-> s.documents]

\* the persisted part of a store value
Files(s) == [vecFile |-> s.vecFile, docFile |-> s.docFile]

\* index.ntotal, 0 when index is None
NTotal == IF index = NoneRef THEN 0 ELSE Len(heap[index].xb)

IdleThread ==
  [pc |-> "idle", op |-> "none", arg |-> None, message |-> <<>>, vec |-> <<>>,
   ref |-> NoneRef, n |-> 0, D |-> Inf, I |-> -1, resp |-> NoResponse,
   embedCalls |-> 0, searchCalls |-> 0, pre |-> EmptySnapshot]

Free(t) == th[t].pc \in {"idle", "done"}
AllQuiet == \A t \in Threads : Free(t)
InFlightUploads == Cardinality({t \in Threads : th[t].op = "upload" /\ ~Free(t)})
Max(a, b) == IF a >= b THEN a ELSE b

\* the request of slot t ends with response r
Finish(t, r) == th' = [th EXCEPT ![t].pc = "done", ![t].resp = r]

Init ==
  /\ proc = "down"
  /\ index = NoneRef
  /\ heap = EmptyHeap
  /\ documents = <<>>
  /\ chat_messages = <<>>
  /\ vecFile = NoFile
  /\ docFile = NoFile
  /\ th = [t \in Threads |-> IdleThread]
  /\ event = "init"
  /\ snap = Memory(EmptySnapshot)

\* ------------------------------------------------------------------ startup (lines 27-40)
\* StartupLoad as it would be with an except clause that resets only `documents`
StartupLoad_KeepIndex(vf, df) ==
  LET empty == [none |-> TRUE, ix |-> NoIndex, documents |-> <<>>]
  IN IF vf.exists /\ df.exists
     THEN LET ri == ReadIndex(vf.data)
              rd == JsonLoad(df.data)
          IN IF ~ri.ok THEN empty
             ELSE IF ~rd.ok THEN [none |-> FALSE, ix |-> ri.val, documents |-> <<>>]
             ELSE [none |-> FALSE, ix |-> ri.val, documents |-> rd.val]
     ELSE empty

\* the module-level load: the value of (index, documents) after line 40
StartupLoad(vf, df) ==
  LET empty == [none |-> TRUE, ix |-> NoIndex, documents |-> <<>>]
  IN IF vf.exists /\ df.exists
     THEN LET ri == ReadIndex(vf.data)
              rd == JsonLoad(df.data)
          IN IF ~ri.ok THEN empty                 \* read_index raised: except resets both
             ELSE IF ~rd.ok THEN empty            \* json.load raised: except resets both
             ELSE [none |-> FALSE, ix |-> ri.val, documents |-> rd.val]
     ELSE empty

Startup ==
  /\ proc = "down"
  /\ LET l == StartupLoad(vecFile, docFile)
     IN /\ index' = IF l.none THEN NoneRef ELSE LoadedRef
        /\ heap' = [EmptyHeap EXCEPT ![LoadedRef] = l.ix]
        /\ documents' = l.documents
  /\ proc' = "up"
  /\ chat_messages' = <<>>
  /\ th' = [t \in Threads |-> IdleThread]
  /\ event' = "startup"
  /\ UNCHANGED <<vecFile, docFile, snap>>

\* the process goes down: memory is lost, the files are left as vf and df
GoDown(kind, vf, df) ==
  /\ proc = "up"
  /\ proc' = "down"
  /\ snap' = Memory(Snapshot)
  /\ index' = NoneRef
  /\ heap' = EmptyHeap
  /\ documents' = <<>>
  /\ chat_messages' = <<>>
  /\ th' = [t \in Threads |-> IdleThread]
  /\ event' = kind
  /\ vecFile' = vf
  /\ docFile' = df

\* the server is stopped between requests
Stop == AllQuiet /\ GoDown("stop", vecFile, docFile)

\* the process dies at any point, also in the middle of a request
Crash == GoDown("crash", vecFile, docFile)

\* the process dies while slot t is writing a file (line 108 or line 110): a proper
\* prefix of what was being written is left in the file
CrashInWrite(t) ==
  \/ /\ th[t].pc = "u_wdata"
     /\ \E part \in ProperPrefixes(WriteIndexData(heap[th[t].ref])) :
          GoDown("crash", [exists |-> TRUE, data |-> WriteAt0(vecFile.data, part)], docFile)
  \/ /\ th[t].pc = "u_ddump"
     /\ \E part \in ProperPrefixes(JsonDump(documents)) :
          GoDown("crash", vecFile, [exists |-> TRUE, data |-> WriteAt0(docFile.data, part)])

\* ------------------------------------------------------------------ chat log (lines 61-72)
send_customer ==
  /\ proc = "up"
  /\ Len(chat_messages) < MaxChat
  /\ chat_messages' = Append(chat_messages, [sender |-> "Customer", text |-> MsgHi])
  /\ event' = "chat"
  /\ UNCHANGED <<proc, index, heap, documents, vecFile, docFile, th, snap>>

send_sales ==
  /\ proc = "up"
  /\ Len(chat_messages) < MaxChat
  /\ chat_messages' = Append(chat_messages, [sender |-> "Sales", text |-> MsgHi])
  /\ event' = "chat"
  /\ UNCHANGED <<proc, index, heap, documents, vecFile, docFile, th, snap>>

\* ------------------------------------------------------------------ upload_doc (lines 83-112)
\* a POST /upload_doc arrives with form field content = c
StartUpload(t, c) ==
  /\ proc = "up"
  /\ Free(t)
  /\ c \in Contents
  /\ \/ c \in {None, Empty}
     \/ Max(NTotal, Len(documents)) + InFlightUploads < MaxDocs
  /\ th' = [th EXCEPT ![t] = [IdleThread EXCEPT !.pc = "u_guard", !.op = "upload",
                                                !.arg = c, !.pre = Snapshot]]
  /\ event' = "request"
  /\ UNCHANGED <<proc, index, heap, documents, chat_messages, vecFile, docFile, snap>>

\* UploadGuard as it would be with `if text is None` for `if not text`
UploadGuard_NoneOnly(t) ==
  /\ proc = "up"
  /\ th[t].pc = "u_guard"
  /\ IF IsNone(th[t].arg)
     THEN Finish(t, NoContent)
     ELSE th' = [th EXCEPT ![t].pc = "u_embed"]
  /\ event' = "upload"
  /\ UNCHANGED <<proc, index, heap, documents, chat_messages, vecFile, docFile, snap>>

\* lines 87-89: `if not text: return "No content provided", 400`
UploadGuard(t) ==
  /\ proc = "up"
  /\ th[t].pc = "u_guard"
  /\ IF IsNone(th[t].arg) \/ th[t].arg = Empty
     THEN Finish(t, NoContent)
     ELSE th' = [th EXCEPT ![t].pc = "u_embed"]
  /\ event' = "upload"
  /\ UNCHANGED <<proc, index, heap, documents, chat_messages, vecFile, docFile, snap>>

\* lines 92-97: the embedding call answers
UploadEmbed(t) ==
  /\ proc = "up"
  /\ th[t].pc = "u_embed"
  /\ th' = [th EXCEPT ![t].pc = "u_check", ![t].vec = Embed(th[t].arg),
                      ![t].embedCalls = @ + 1]
  /\ event' = "upload"
  /\ UNCHANGED <<proc, index, heap, documents, chat_messages, vecFile, docFile, snap>>

\* UploadEmbedFail as it would be with the text appended before the embedding call
UploadEmbedFail_AppendFirst(t) ==
  /\ proc = "up"
  /\ th[t].pc = "u_embed"
  /\ documents' = Append(documents, th[t].arg)
  /\ th' = [th EXCEPT ![t].pc = "done", ![t].embedCalls = @ + 1,
                      ![t].resp = ServerError("embedding_error")]
  /\ event' = "upload"
  /\ UNCHANGED <<proc, index, heap, chat_messages, vecFile, docFile, snap>>

\* lines 92-95: the embedding call raises (network, auth, quota); nothing catches it
UploadEmbedFail(t) ==
  /\ proc = "up"
  /\ th[t].pc = "u_embed"
  /\ th' = [th EXCEPT ![t].pc = "done", ![t].embedCalls = @ + 1,
                      ![t].resp = ServerError("embedding_error")]
  /\ event' = "upload"
  /\ UNCHANGED <<proc, index, heap, documents, chat_messages, vecFile, docFile, snap>>

\* line 100: `if index is None`
UploadCheck(t) ==
  /\ proc = "up"
  /\ th[t].pc = "u_check"
  /\ th' = [th EXCEPT ![t].pc = IF index = NoneRef THEN "u_create" ELSE "u_add"]
  /\ event' = "upload"
  /\ UNCHANGED <<proc, index, heap, documents, chat_messages, vecFile, docFile, snap>>

\* line 101: `index = faiss.IndexFlatL2(len(vec[0]))`, a new object bound to the global
UploadCreate(t) ==
  /\ proc = "up"
  /\ th[t].pc = "u_create"
  /\ heap' = [heap EXCEPT ![t] = [d |-> Len(th[t].vec), xb |-> <<>>]]
  /\ index' = t
  /\ th' = [th EXCEPT ![t].pc = "u_add"]
  /\ event' = "upload"
  /\ UNCHANGED <<proc, documents, chat_messages, vecFile, docFile, snap>>

\* line 104, `index.add(vec)` entered: the global is read, the dimension checked and
\* ntotal read
UploadAddBegin(t) ==
  /\ proc = "up"
  /\ th[t].pc = "u_add"
  /\ IF heap[index].d # Len(th[t].vec)
     THEN Finish(t, ServerError("add_error"))
     ELSE th' = [th EXCEPT ![t].pc = "u_add2", ![t].ref = index,
                           ![t].n = Len(heap[index].xb)]
  /\ event' = "upload"
  /\ UNCHANGED <<proc, index, heap, documents, chat_messages, vecFile, docFile, snap>>

\* line 104, `index.add(vec)` completes: the vector is stored at position n.  When
\* another add completed on the same object meanwhile (unsynchronised adds), the
\* vector is either stored after it or over it.
UploadAddEnd(t) ==
  /\ proc = "up"
  /\ th[t].pc = "u_add2"
  /\ LET xb == heap[th[t].ref].xb
     IN \E out \in {Append(xb, th[t].vec), Append(SubSeq(xb, 1, th[t].n), th[t].vec)} :
          heap' = [heap EXCEPT ![th[t].ref].xb = out]
  /\ th' = [th EXCEPT ![t].pc = "u_append"]
  /\ event' = "upload"
  /\ UNCHANGED <<proc, index, documents, chat_messages, vecFile, docFile, snap>>

\* UploadAppend with the text put in front of the list instead of at its end
UploadAppend_Front(t) ==
  /\ proc = "up"
  /\ th[t].pc = "u_append"
  /\ documents' = <<th[t].arg>> \o documents
  /\ th' = [th EXCEPT ![t].pc = "u_wopen"]
  /\ event' = "upload"
  /\ UNCHANGED <<proc, index, heap, chat_messages, vecFile, docFile, snap>>

\* line 105: `documents.append(text)`
UploadAppend(t) ==
  /\ proc = "up"
  /\ th[t].pc = "u_append"
  /\ documents' = Append(documents, th[t].arg)
  /\ th' = [th EXCEPT ![t].pc = "u_wopen"]
  /\ event' = "upload"
  /\ UNCHANGED <<proc, index, heap, chat_messages, vecFile, docFile, snap>>

\* line 108, `faiss.write_index(index, VECTOR_PATH)` entered: the global is read and
\* the file is opened for writing, which creates or truncates it
UploadOpenIndex(t) ==
  /\ proc = "up"
  /\ th[t].pc = "u_wopen"
  /\ vecFile' = [exists |-> TRUE, data |-> <<>>]
  /\ th' = [th EXCEPT ![t].pc = "u_wdata", ![t].ref = index]
  /\ event' = "upload"
  /\ UNCHANGED <<proc, index, heap, documents, chat_messages, docFile, snap>>

\* line 108: the index is serialised into the file and the file closed
UploadWriteIndex(t) ==
  /\ proc = "up"
  /\ th[t].pc = "u_wdata"
  /\ vecFile' = [exists |-> TRUE,
                 data |-> WriteAt0(vecFile.data, WriteIndexData(heap[th[t].ref]))]
  /\ th' = [th EXCEPT ![t].pc = "u_dopen"]
  /\ event' = "upload"
  /\ UNCHANGED <<proc, index, heap, documents, chat_messages, docFile, snap>>

\* line 109: `open(DOC_PATH, "w")` creates or truncates the file
UploadOpenDocs(t) ==
  /\ proc = "up"
  /\ th[t].pc = "u_dopen"
  /\ docFile' = [exists |-> TRUE, data |-> <<>>]
  /\ th' = [th EXCEPT ![t].pc = "u_ddump"]
  /\ event' = "upload"
  /\ UNCHANGED <<proc, index, heap, documents, chat_messages, vecFile, snap>>

\* UploadDumpDocs as it would be with only the new text dumped
UploadDumpDocs_OnlyNew(t) ==
  /\ proc = "up"
  /\ th[t].pc = "u_ddump"
  /\ docFile' = [exists |-> TRUE, data |-> WriteAt0(docFile.data, JsonDump(<<th[t].arg>>))]
  /\ Finish(t, StoredOk)
  /\ event' = "upload"
  /\ UNCHANGED <<proc, index, heap, documents, chat_messages, vecFile, snap>>

\* lines 110-112: `json.dump(documents, f)`, the file is closed, the success text returned
UploadDumpDocs(t) ==
  /\ proc = "up"
  /\ th[t].pc = "u_ddump"
  /\ docFile' = [exists |-> TRUE, data |-> WriteAt0(docFile.data, JsonDump(documents))]
  /\ Finish(t, StoredOk)
  /\ event' = "upload"
  /\ UNCHANGED <<proc, index, heap, documents, chat_messages, vecFile, snap>>

\* line 108 raises: the file cannot be opened (left as it was), or the write breaks
\* off and leaves a proper prefix of the index
UploadWriteIndexFail(t) ==
  /\ proc = "up"
  /\ \/ /\ th[t].pc = "u_wopen"
        /\ UNCHANGED vecFile
     \/ /\ th[t].pc = "u_wdata"
        /\ \E part \in ProperPrefixes(WriteIndexData(heap[th[t].ref])) :
             vecFile' = [exists |-> TRUE, data |-> WriteAt0(vecFile.data, part)]
  /\ Finish(t, ServerError("write_error"))
  /\ event' = "upload"
  /\ UNCHANGED <<proc, index, heap, documents, chat_messages, docFile, snap>>

\* lines 109-110 raise: the file cannot be opened (left as it was), or the dump breaks
\* off and leaves a proper prefix of the array
UploadDumpDocsFail(t) ==
  /\ proc = "up"
  /\ \/ /\ th[t].pc = "u_dopen"
        /\ UNCHANGED docFile
     \/ /\ th[t].pc = "u_ddump"
        /\ \E part \in ProperPrefixes(JsonDump(documents)) :
             docFile' = [exists |-> TRUE, data |-> WriteAt0(docFile.data, part)]
  /\ Finish(t, ServerError("write_error"))
  /\ event' = "upload"
  /\ UNCHANGED <<proc, index, heap, documents, chat_messages, vecFile, snap>>

\* ------------------------------------------------------------------ analyze (lines 118-184)
\* a POST /analyze arrives with JSON field message = m
StartAnalyze(t, m) ==
  /\ proc = "up"
  /\ Free(t)
  /\ m \in Messages
  /\ th' = [th EXCEPT ![t] = [IdleThread EXCEPT !.pc = "a_filter", !.op = "analyze",
                                                !.arg = m, !.pre = Snapshot]]
  /\ event' = "request"
  /\ UNCHANGED <<proc, index, heap, documents, chat_messages, vecFile, docFile, snap>>

\* the i-th element of a Python list, i possibly negative; defined iff -len <= i < len
InRange(list, i) == -Len(list) <= i /\ i < Len(list)
At(list, i) == IF i >= 0 THEN list[i + 1] ELSE list[Len(list) + i + 1]

\* AnalyzeFilter as it would be with a no-data test of `index is None` alone
AnalyzeFilter_IndexOnly(t) ==
  /\ proc = "up"
  /\ th[t].pc = "a_filter"
  /\ IF IsNone(th[t].arg)
     THEN Finish(t, ServerError("attribute_error"))
     ELSE LET message == Normalize(th[t].arg)
          IN IF message \in greetings THEN Finish(t, GreetingReply)
             ELSE IF Len(message) < 5 THEN Finish(t, ShortReply)
             ELSE IF index = NoneRef THEN Finish(t, NoDataReply)
             ELSE th' = [th EXCEPT ![t].pc = "a_embed", ![t].message = message]
  /\ event' = "analyze"
  /\ UNCHANGED <<proc, index, heap, documents, chat_messages, vecFile, docFile, snap>>

\* AnalyzeFilter as it would be with the short-message test put before the greeting test
AnalyzeFilter_ShortFirst(t) ==
  /\ proc = "up"
  /\ th[t].pc = "a_filter"
  /\ IF IsNone(th[t].arg)
     THEN Finish(t, ServerError("attribute_error"))
     ELSE LET message == Normalize(th[t].arg)
          IN IF Len(message) < 5 THEN Finish(t, ShortReply)
             ELSE IF message \in greetings THEN Finish(t, GreetingReply)
             ELSE IF index = NoneRef \/ Len(documents) = 0 THEN Finish(t, NoDataReply)
             ELSE th' = [th EXCEPT ![t].pc = "a_embed", ![t].message = message]
  /\ event' = "analyze"
  /\ UNCHANGED <<proc, index, heap, documents, chat_messages, vecFile, docFile, snap>>

\* lines 120-154: normalisation, greeting filter, short-message filter, no-data check
AnalyzeFilter(t) ==
  /\ proc = "up"
  /\ th[t].pc = "a_filter"
  /\ IF IsNone(th[t].arg)
     THEN Finish(t, ServerError("attribute_error"))    \* None has no .lower()
     ELSE LET message == Normalize(th[t].arg)
          IN IF message \in greetings THEN Finish(t, GreetingReply)
             ELSE IF Len(message) < 5 THEN Finish(t, ShortReply)
             ELSE IF index = NoneRef \/ Len(documents) = 0 THEN Finish(t, NoDataReply)
             ELSE th' = [th EXCEPT ![t].pc = "a_embed", ![t].message = message]
  /\ event' = "analyze"
  /\ UNCHANGED <<proc, index, heap, documents, chat_messages, vecFile, docFile, snap>>

\* lines 157-162: the embedding call answers
AnalyzeEmbed(t) ==
  /\ proc = "up"
  /\ th[t].pc = "a_embed"
  /\ th' = [th EXCEPT ![t].pc = "a_search", ![t].vec = Embed(th[t].message),
                      ![t].embedCalls = @ + 1]
  /\ event' = "analyze"
  /\ UNCHANGED <<proc, index, heap, documents, chat_messages, vecFile, docFile, snap>>

\* AnalyzeEmbedFail as it would be with the failure caught and answered as "no data"
AnalyzeEmbedFail_Silent(t) ==
  /\ proc = "up"
  /\ th[t].pc = "a_embed"
  /\ th' = [th EXCEPT ![t].pc = "done", ![t].embedCalls = @ + 1, ![t].resp = NoDataReply]
  /\ event' = "analyze"
  /\ UNCHANGED <<proc, index, heap, documents, chat_messages, vecFile, docFile, snap>>

\* lines 157-160: the embedding call raises; nothing catches it
AnalyzeEmbedFail(t) ==
  /\ proc = "up"
  /\ th[t].pc = "a_embed"
  /\ th' = [th EXCEPT ![t].pc = "done", ![t].embedCalls = @ + 1,
                      ![t].resp = ServerError("embedding_error")]
  /\ event' = "analyze"
  /\ UNCHANGED <<proc, index, heap, documents, chat_messages, vecFile, docFile, snap>>

\* line 164: `D, I = index.search(q_vec, k=1)`
AnalyzeSearch(t) ==
  /\ proc = "up"
  /\ th[t].pc = "a_search"
  /\ LET r == Search(heap[index], th[t].vec)
     IN th' = [th EXCEPT ![t].pc = "a_decide", ![t].D = r.D, ![t].I = r.I,
                         ![t].searchCalls = @ + 1]
  /\ event' = "analyze"
  /\ UNCHANGED <<proc, index, heap, documents, chat_messages, vecFile, docFile, snap>>

\* AnalyzeDecide as it would be with `>=` for `>` in the threshold test
AnalyzeDecide_GreaterEqual(t) ==
  /\ proc = "up"
  /\ th[t].pc = "a_decide"
  /\ IF th[t].D >= Threshold THEN Finish(t, LowRelevanceReply)
     ELSE IF ~InRange(documents, th[t].I)
     THEN Finish(t, ServerError("index_error"))
     ELSE Finish(t, MatchReply(At(documents, th[t].I), th[t].D))
  /\ event' = "analyze"
  /\ UNCHANGED <<proc, index, heap, documents, chat_messages, vecFile, docFile, snap>>

\* AnalyzeDecide as it would be with the analysed message recorded in the chat log
AnalyzeDecide_Logged(t) ==
  /\ proc = "up"
  /\ th[t].pc = "a_decide"
  /\ IF th[t].D > Threshold THEN Finish(t, LowRelevanceReply)
     ELSE IF ~InRange(documents, th[t].I)
     THEN Finish(t, ServerError("index_error"))
     ELSE Finish(t, MatchReply(At(documents, th[t].I), th[t].D))
  /\ chat_messages' = Append(chat_messages, [sender |-> "Customer", text |-> th[t].message])
  /\ event' = "analyze"
  /\ UNCHANGED <<proc, index, heap, documents, vecFile, docFile, snap>>

\* lines 167-184: the threshold test, then `documents[I[0][0]]` and the match reply
AnalyzeDecide(t) ==
  /\ proc = "up"
  /\ th[t].pc = "a_decide"
  /\ IF th[t].D > Threshold THEN Finish(t, LowRelevanceReply)
     ELSE IF ~InRange(documents, th[t].I)
     THEN Finish(t, ServerError("index_error"))        \* IndexError: list index out of range
     ELSE Finish(t, MatchReply(At(documents, th[t].I), th[t].D))
  /\ event' = "analyze"
  /\ UNCHANGED <<proc, index, heap, documents, chat_messages, vecFile, docFile, snap>>

\* ------------------------------------------------------------------ specifications
\* a step of an upload_doc request in progress, failures of the file writes left out
UploadStep(t) ==
  \/ UploadGuard(t)
  \/ UploadEmbed(t)
  \/ UploadEmbedFail(t)
  \/ UploadCheck(t)
  \/ UploadCreate(t)
  \/ UploadAddBegin(t)
  \/ UploadAddEnd(t)
  \/ UploadAppend(t)
  \/ UploadOpenIndex(t)
  \/ UploadWriteIndex(t)
  \/ UploadOpenDocs(t)
  \/ UploadDumpDocs(t)

\* a step of an analyze request in progress
AnalyzeStep(t) ==
  \/ AnalyzeFilter(t)
  \/ AnalyzeEmbed(t)
  \/ AnalyzeEmbedFail(t)
  \/ AnalyzeSearch(t)
  \/ AnalyzeDecide(t)

WriteFailure(t) == UploadWriteIndexFail(t) \/ UploadDumpDocsFail(t)

Chat == send_customer \/ send_sales

\* one request at a time: a request arrives at slot 1 when no request is in progress
UploadArrives == \E c \in Contents : AllQuiet /\ StartUpload(1, c)
AnalyzeArrives == \E m \in Messages : AllQuiet /\ StartAnalyze(1, m)

\* The program as it runs: the threaded server takes requests concurrently, writes can
\* fail and the process can die and be started again.
Next ==
  \/ Startup
  \/ Crash
  \/ \E t \in Threads : CrashInWrite(t)
  \/ Chat
  \/ \E t \in Threads, c \in Contents : StartUpload(t, c)
  \/ \E t \in Threads, m \in Messages : StartAnalyze(t, m)
  \/ \E t \in Threads : UploadStep(t)
  \/ \E t \in Threads : AnalyzeStep(t)
  \/ \E t \in Threads : WriteFailure(t)

Spec == Init /\ [][Next]_vars

\* One request at a time, no failing write, no crash; the server may be stopped
\* between requests and started again.
NextSeq ==
  \/ Startup
  \/ Stop
  \/ AllQuiet /\ Chat
  \/ UploadArrives
  \/ AnalyzeArrives
  \/ \E t \in Threads : UploadStep(t)
  \/ \E t \in Threads : AnalyzeStep(t)

SpecSeq == Init /\ [][NextSeq]_vars

\* Uploads one at a time whose file writes can fail.
NextFail ==
  \/ Startup
  \/ UploadArrives
  \/ \E t \in Threads : UploadStep(t)
  \/ \E t \in Threads : WriteFailure(t)

SpecFail == Init /\ [][NextFail]_vars

\* the analyze requests of the runs with crashes and of the concurrent runs: one that
\* is answered by the filter and one that searches
FewMessages == {MsgHey, MsgPlanB}

\* One request at a time, and the process can die at any step and be started again.
NextCrash ==
  \/ Startup
  \/ Crash
  \/ \E t \in Threads : CrashInWrite(t)
  \/ UploadArrives
  \/ \E m \in FewMessages : AllQuiet /\ StartAnalyze(1, m)
  \/ \E t \in Threads : UploadStep(t)
  \/ \E t \in Threads : AnalyzeStep(t)

SpecCrash == Init /\ [][NextCrash]_vars

\* One upload at a time (slot 1) with analyze requests (slot 2) running beside it: an
\* analyze can find the store in the middle of an upload.
NextPair ==
  \/ Startup
  \/ \E c \in Contents : StartUpload(1, c)
  \/ \E m \in Messages : StartAnalyze(2, m)
  \/ \E t \in Threads : UploadStep(t)
  \/ \E t \in Threads : AnalyzeStep(t)

SpecPair == Init /\ [][NextPair]_vars

\* the uploads of the concurrent runs: those that pass the guard
ConcContents == {DocA, DocB}

\* Concurrent requests, no failing write, no crash.
NextConc ==
  \/ Startup
  \/ \E t \in Threads, c \in ConcContents : StartUpload(t, c)
  \/ \E t \in Threads, m \in FewMessages : StartAnalyze(t, m)
  \/ \E t \in Threads : UploadStep(t)
  \/ \E t \in Threads : AnalyzeStep(t)

SpecConc == Init /\ [][NextConc]_vars

\* ------------------------------------------------------------------ properties
\* the in-memory store is aligned: as many vectors as documents, and the i-th vector
\* is the embedding of the i-th document
Aligned ==
  /\ NTotal = Len(documents)
  /\ \A i \in 1..Len(documents) : heap[index].xb[i] = Embed(documents[i])

\* the request of slot t has just ended (the last step taken was its last step)
JustDone(t, op) == th[t].pc = "done" /\ th[t].op = op /\ event = op

\* C1: with requests served one at a time (each upload stored, rejected with 400 or
\* failed in the embedding call), whenever no request is in progress the index holds
\* as many vectors as there are documents (none when index is None) and the i-th
\* document is the text whose embedding is the i-th vector.
C1_AlignmentSequential == (proc = "up" /\ AllQuiet) => Aligned

\* two uploads were stored one after the other, the second just now
C1_Witness ==
  /\ JustDone(1, "upload")
  /\ th[1].resp = StoredOk
  /\ documents = <<DocB, DocA>>
  /\ Aligned

\* probe vectors of the searches compared across a restart; <<15, 0, 0>> is
\* equally far from both documents' vectors
Probes == {<<0, 0, 0>>, <<30, 2, 2>>, <<10, 4, 2>>, <<15, 0, 0>>}

\* C7: with requests served one at a time and no crash, a restart (the startup load
\* of the files as the last upload left them) gives back the store as it was in
\* memory when the server was stopped: index None or not, the same vectors, the same
\* documents in the same order, and the same nearest position for every probe.
C7_RoundTrip ==
  event = "startup" =>
    /\ Memory(Snapshot) = snap
    /\ \A q \in Probes : Search(Snapshot.ix, q) = Search(snap.ix, q)

\* the server was restarted with two documents stored
C7_Witness ==
  /\ event = "startup"
  /\ snap.documents = <<DocB, DocA>>
  /\ Len(documents) = 2

\* C8: an upload whose embedding call fails ends in an error, not in the success
\* text, and index, documents and both files are as they were when the request
\* arrived.
C8_EmbedFailureNoMutation ==
  \A t \in Threads :
    (JustDone(t, "upload") /\ th[t].resp.kind = "embedding_error") =>
      /\ th[t].resp.status = 500
      /\ th[t].resp # StoredOk
      /\ Memory(Snapshot) = Memory(th[t].pre)
      /\ Files(Snapshot) = Files(th[t].pre)

\* an upload failed in the embedding call while a document was stored
C8_Witness ==
  /\ JustDone(1, "upload")
  /\ th[1].resp.kind = "embedding_error"
  /\ Len(documents) = 1
  /\ vecFile.exists

\* the messages of the empty-input guard: absent, empty, whitespace only
IsBlankMessage(m) == IsNone(m) \/ Strip(m) = <<>>

\* C10: an analyze request whose message is absent, empty or whitespace-only is
\* rejected with a client error, produces no suggestion and makes no embedding call.
C10_EmptyInputGuard ==
  \A t \in Threads :
    (JustDone(t, "analyze") /\ IsBlankMessage(th[t].arg)) =>
      /\ th[t].resp.status = 400
      /\ ~IsSuggestion(th[t].resp)
      /\ th[t].embedCalls = 0

\* what the persisted files hold, when a file exists and deserialises
VecFileReadable == vecFile.exists /\ ReadIndex(vecFile.data).ok
DocFileReadable == docFile.exists /\ JsonLoad(docFile.data).ok
PersistedVectors == Len(ReadIndex(vecFile.data).val.xb)
PersistedDocuments == Len(JsonLoad(docFile.data).val)

\* both files deserialise and hold different counts
PersistedMismatch ==
  VecFileReadable /\ DocFileReadable /\ PersistedVectors # PersistedDocuments

\* C2: wherever the process dies during upload_doc, the two persisted files are in
\* sync: when both deserialise, the index file holds as many vectors as the
\* documents file holds texts.
C2_CrashConsistentFiles == event = "crash" => ~PersistedMismatch

\* C5: when at startup both files deserialise but hold different counts, the load
\* discards both and starts empty; so after every startup the index holds as many
\* vectors as there are documents.
C5_MismatchDiscardedOnLoad ==
  event = "startup" =>
    /\ PersistedMismatch => (index = NoneRef /\ documents = <<>>)
    /\ NTotal = Len(documents)

\* C6: when at startup either file is absent or fails to deserialise (also when the
\* index file loads and the documents file then fails), the process is up with
\* index None and documents empty.
C6_EmptyStartOnMissingOrUnreadable ==
  (event = "startup" /\ ~(VecFileReadable /\ DocFileReadable)) =>
    /\ proc = "up"
    /\ index = NoneRef
    /\ documents = <<>>
    /\ NTotal = 0

\* a startup at which the index file loads with a vector and the documents file,
\* cut short by the crash after its first items, fails to load
C6_Witness ==
  /\ event = "startup"
  /\ VecFileReadable
  /\ PersistedVectors >= 1
  /\ docFile.exists
  /\ Len(docFile.data) >= 2
  /\ ~DocFileReadable
  /\ index = NoneRef
  /\ documents = <<>>

\* C9: an upload whose write of the index file or of the documents file fails does
\* not return the success text and leaves index, documents and both files as they
\* were when the request arrived; the success text is returned only when both files
\* have been written and hold what is in memory.
C9_PersistenceFailureLeavesPriorState ==
  \A t \in Threads :
    /\ (JustDone(t, "upload") /\ th[t].resp.kind = "write_error") =>
         /\ th[t].resp # StoredOk
         /\ Memory(Snapshot) = Memory(th[t].pre)
         /\ Files(Snapshot) = Files(th[t].pre)
    /\ (JustDone(t, "upload") /\ th[t].resp = StoredOk) =>
         /\ VecFileReadable
         /\ DocFileReadable
         /\ ReadIndex(vecFile.data).val = Snapshot.ix
         /\ JsonLoad(docFile.data).val = documents

\* C3: concurrent uploads are serialised, so that once all of them have completed
\* the index holds as many vectors as there are documents, no vector is lost (the
\* i-th vector is the embedding of the i-th document) and the two files hold the
\* same counts.
C3_UploadsSerialized ==
  (proc = "up" /\ AllQuiet) =>
    /\ Aligned
    /\ (VecFileReadable /\ DocFileReadable) => PersistedVectors = PersistedDocuments

\* C4: an analyze running concurrently with an upload never sees the vector added
\* without its document: the position its search returned is a position of
\* `documents` when it is dereferenced (the request does not end in IndexError).
C4_ReadsSeeConsistentStore ==
  \A t \in Threads : JustDone(t, "analyze") => th[t].resp.kind # "index_error"

\* C11: an upload whose content is absent or empty returns the 400 client error,
\* makes no embedding call and leaves index, documents and both files as they were
\* when the request arrived.
C11_UploadInputGuard ==
  \A t \in Threads :
    (JustDone(t, "upload") /\ (IsNone(th[t].arg) \/ th[t].arg = Empty)) =>
      /\ th[t].resp = NoContent
      /\ th[t].resp.status = 400
      /\ th[t].embedCalls = 0
      /\ Memory(Snapshot) = Memory(th[t].pre)
      /\ Files(Snapshot) = Files(th[t].pre)

\* an upload with empty content was rejected while a document was stored
C11_Witness ==
  /\ JustDone(1, "upload")
  /\ th[1].arg = Empty
  /\ th[1].resp = NoContent
  /\ Len(documents) = 1
  /\ docFile.exists

\* the greeting phrases, written out
GreetingPhrases ==
  { <<"h", "i">>,
    <<"h", "e", "l", "l", "o">>,
    <<"h", "e", "y">>,
    <<"g", "o", "o", "d", " ", "m", "o", "r", "n", "i", "n", "g">>,
    <<"g", "o", "o", "d", " ", "e", "v", "e", "n", "i", "n", "g">> }

\* C12: on every store state, an analyze whose message, lower-cased and trimmed, is
\* one of the greeting phrases (whatever its case and surrounding whitespace) returns
\* the fixed greeting suggestion, and the request makes no embedding call.
C12_GreetingBypassesRetrieval ==
  \A t \in Threads :
    (JustDone(t, "analyze") /\ ~IsNone(th[t].arg) /\ Strip(Lower(th[t].arg)) \in GreetingPhrases) =>
      /\ th[t].resp = GreetingReply
      /\ th[t].resp.conversion_percentage = 10
      /\ th[t].embedCalls = 0
      /\ th[t].searchCalls = 0

\* " HeY " was answered with the greeting on a populated store
C12_Witness ==
  /\ JustDone(1, "analyze")
  /\ th[1].arg = MsgHey
  /\ th[1].resp = GreetingReply
  /\ NTotal = 2
  /\ Len(documents) = 2

\* the rules of the decision chain in their order, for message m (present) on store s
RuleMatches(i, m, s) ==
  LET msg == Strip(Lower(m))
  IN CASE i = 1 -> msg \in GreetingPhrases
       [] i = 2 -> Len(msg) < 5
       [] i = 3 -> s.none \/ Len(s.documents) = 0
       [] i = 4 -> Search(s.ix, Embed(msg)).D > Threshold
       [] i = 5 -> TRUE

RuleReply(i, m, s) ==
  LET r == Search(s.ix, Embed(Strip(Lower(m))))
  IN CASE i = 1 -> GreetingReply
       [] i = 2 -> ShortReply
       [] i = 3 -> NoDataReply
       [] i = 4 -> LowRelevanceReply
       [] i = 5 -> MatchReply(s.documents[r.I + 1], r.D)

FirstRule(m, s) ==
  CHOOSE i \in 1..5 : RuleMatches(i, m, s) /\ \A j \in 1..(i - 1) : ~RuleMatches(j, m, s)

\* C13: for every (present) message and every store state, an analyze that is not cut
\* short by a failing embedding call returns exactly one suggestion, that of the first
\* rule that matches in the order greeting, short message, no data, low relevance,
\* match.
C13_FirstMatchChain ==
  \A t \in Threads :
    (JustDone(t, "analyze") /\ ~IsNone(th[t].arg) /\ th[t].resp.kind # "embedding_error") =>
      /\ IsSuggestion(th[t].resp)
      /\ th[t].resp = RuleReply(FirstRule(th[t].arg, th[t].pre), th[t].arg, th[t].pre)

\* a greeting of two characters got the greeting suggestion, not the short-message one
C13_Witness ==
  /\ JustDone(1, "analyze")
  /\ th[1].arg = MsgHi
  /\ Len(Normalize(th[1].arg)) < 5
  /\ th[1].resp = GreetingReply
  /\ th[1].resp # ShortReply

\* message m is present, is no greeting and has at least 5 characters once normalised
PassesIntentFilter(m) ==
  /\ ~IsNone(m)
  /\ Strip(Lower(m)) \notin GreetingPhrases
  /\ Len(Strip(Lower(m))) >= 5

\* C14: when index is None or documents is empty at the no-data test, an analyze with
\* a non-greeting message of normalised length >= 5 ends there with the fixed
\* no-data suggestion (interest_level "Low", conversion_percentage 0, objection
\* "No data"), having made no embedding call and no search.
C14_NoDataGuardBeforeEmbedding ==
  [][\A t \in Threads :
       ( /\ th[t].pc = "a_filter"
         /\ th'[t].pc # "a_filter"
         /\ PassesIntentFilter(th[t].arg)
         /\ (index = NoneRef \/ Len(documents) = 0) ) =>
       ( /\ th'[t].pc = "done"
         /\ th'[t].resp = NoDataReply
         /\ th'[t].resp.interest_level = "Low"
         /\ th'[t].resp.conversion_percentage = 0
         /\ th'[t].resp.objection = "No data"
         /\ th'[t].embedCalls = 0
         /\ th'[t].searchCalls = 0 )]_vars

\* an analyze got the no-data suggestion from a store whose index was created by an
\* upload in progress and whose documents were still empty
C14_Witness ==
  /\ JustDone(2, "analyze")
  /\ PassesIntentFilter(th[2].arg)
  /\ th[2].resp = NoDataReply
  /\ th[2].embedCalls = 0
  /\ index # NoneRef
  /\ documents = <<>>

\* the request of slot t reached retrieval: its message passed the intent filter and
\* the store it found was not empty
ReachedRetrieval(t) ==
  /\ PassesIntentFilter(th[t].arg)
  /\ ~th[t].pre.none
  /\ Len(th[t].pre.documents) > 0

\* C15: an analyze that reaches retrieval makes exactly one embedding call, followed
\* by exactly one k=1 search, with no retry; when the embedding call fails the
\* request makes no search and ends in an error (500), which is none of the
\* suggestions, in particular not the no-data one.
C15_OneEmbeddingOneSearch ==
  \A t \in Threads :
    /\ (th[t].op = "analyze" /\ th[t].pc = "a_search") =>
         (th[t].embedCalls = 1 /\ th[t].searchCalls = 0)
    /\ th[t].op = "analyze" => (th[t].embedCalls <= 1 /\ th[t].searchCalls <= th[t].embedCalls)
    /\ (JustDone(t, "analyze") /\ ReachedRetrieval(t)) =>
         /\ th[t].embedCalls = 1
         /\ IF th[t].resp.kind = "embedding_error"
            THEN /\ th[t].searchCalls = 0
                 /\ th[t].resp.status = 500
                 /\ ~IsSuggestion(th[t].resp)
                 /\ th[t].resp # NoDataReply
            ELSE /\ th[t].searchCalls = 1
                 /\ IsSuggestion(th[t].resp)

\* an analyze of a populated store ended in the embedding error
C15_Witness ==
  /\ JustDone(1, "analyze")
  /\ ReachedRetrieval(1)
  /\ th[1].resp.kind = "embedding_error"
  /\ th[1].embedCalls = 1
  /\ Len(documents) = 2

\* C16: an analyze that searched and found distance d at position p returns the
\* low-relevance suggestion iff d > 1.2; otherwise (d <= 1.2, also d = 1.2) it returns
\* the match suggestion, whose suggested_reply is the document at position p and
\* whose interest_level is "High".
C16_ThresholdInclusiveMatch ==
  \A t \in Threads :
    (JustDone(t, "analyze") /\ th[t].searchCalls = 1) =>
      /\ (th[t].resp = LowRelevanceReply) <=> (th[t].D > 120)
      /\ th[t].D <= 120 =>
           /\ IsSuggestion(th[t].resp)
           /\ th[t].resp.suggested_reply = documents[th[t].I + 1]
           /\ th[t].resp.interest_level = "High"
           /\ th[t].resp.objection = "None"
           /\ th[t].resp.next_action = "Proceed"

\* an analyze found its nearest document at distance exactly 1.2 and got the match
C16_Witness ==
  /\ JustDone(1, "analyze")
  /\ th[1].searchCalls = 1
  /\ th[1].D = 120
  /\ th[1].resp.interest_level = "High"
  /\ th[1].resp.suggested_reply = DocA

\* 100 / (1 + d) rounded to the nearest integer (ties to even, as Python's round),
\* for d in hundredths
RoundConversion(d) ==
  LET den == 100 + d
      q == (100 * 100) \div den
      r == (100 * 100) % den
  IN IF 2 * r > den THEN q + 1
     ELSE IF 2 * r < den THEN q
     ELSE IF q % 2 = 0 THEN q ELSE q + 1

\* the request of slot t is an analyze that ended in the match reply
IsMatch(t) ==
  /\ th[t].op = "analyze"
  /\ th[t].pc = "done"
  /\ th[t].searchCalls = 1
  /\ th[t].D <= Threshold
  /\ IsSuggestion(th[t].resp)

\* C17: on the match branch (distance d <= 1.2) conversion_percentage equals
\* round(100 / (1 + d)), the quotient rounded to the nearest integer.
C17_ConversionIsRounded ==
  \A t \in Threads :
    IsMatch(t) => th[t].resp.conversion_percentage = RoundConversion(th[t].D)

\* C18: the conversion_percentage of a match reply at distance d2 is at most the one
\* computed for any smaller distance d1 of the match range and at least the one
\* computed for any larger one, and the conversion_percentage of every suggestion
\* analyze returns, whatever its branch, is an integer in 0..100.
C18_ConversionMonotoneInRange ==
  /\ \A t \in Threads :
       (th[t].op = "analyze" /\ th[t].pc = "done" /\ IsSuggestion(th[t].resp)) =>
         th[t].resp.conversion_percentage \in 0..100
  /\ \A t \in Threads :
       IsMatch(t) =>
         \A d \in 0..Threshold :
           /\ d < th[t].D => Conversion(d) >= th[t].resp.conversion_percentage
           /\ d > th[t].D => Conversion(d) <= th[t].resp.conversion_percentage

\* a match reply at distance 0.08, strictly inside the match range, carries 92
C18_Witness ==
  /\ JustDone(1, "analyze")
  /\ IsMatch(1)
  /\ th[1].D = 8
  /\ th[1].resp.conversion_percentage = 92
  /\ Conversion(0) > 92
  /\ Conversion(Threshold) < 92

\* C19: whatever its branch (greeting, short message, no data, low relevance, match,
\* failing embedding call), a finished analyze leaves the in-memory index and
\* documents, both files and the chat log as they were when the request arrived.
C19_AnalyzeReadOnly ==
  \A t \in Threads : JustDone(t, "analyze") => Snapshot = th[t].pre

\* a match reply was given over a populated store with a message in the chat log
C19_Witness ==
  /\ JustDone(1, "analyze")
  /\ IsMatch(1)
  /\ Len(chat_messages) > 0
  /\ Len(documents) > 0
  /\ docFile.exists
  /\ Snapshot = th[1].pre

\* C20: an analyze that reaches the search obtains a position p with
\* 0 <= p < len(documents), and no state just after a restart has more vectors in
\* `index` than entries in `documents`.
C20_NoMissingDocumentAfterRestart ==
  /\ \A t \in Threads :
       (th[t].op = "analyze" /\ th[t].pc = "a_decide") =>
         (0 <= th[t].I /\ th[t].I < Len(documents))
  /\ event = "startup" => NTotal <= Len(documents)

====
